---- MODULE Spec2Model ----
(***************************************************************************)
(* Model of src/src/simulation.py: the sweep driver                        *)
(* (run_complete_simulation), the match loop (simulate_match), the round   *)
(* loop (simulate_round) and the voting helpers.  The random generator is  *)
(* modelled as a stream of raw draws: a draw beyond the end of the stream  *)
(* is free (any index of the candidate list) and is appended to the        *)
(* stream; a draw inside the stream is read from it.                       *)
(***************************************************************************)
EXTENDS Integers, Sequences, FiniteSets, TLC

VARIABLES
    params,         \* SimParams: [P_values, R_values, n_matches]
    stream,         \* raw results the generator has produced / will produce
    pos,            \* number of draws this run has consumed
    pc,             \* "sweep" | "match" | "round" | "done" | "raised"
    cell,           \* number of (P, R, replicate) cells of the sweep started
    match_id,       \* run_complete_simulation.match_id
    P,              \* simulate_match.P
    R,              \* simulate_match.R
    players,        \* simulate_match.players
    round_id,       \* simulate_match.round_id
    base_ctx,       \* simulate_match.base_ctx / simulate_round.base_ctx
    players_alive,  \* simulate_round.players_alive
    step_id,        \* simulate_round.step_id
    votes,          \* the VoteRecord sink
    game_results,   \* the GameResultRecord sink
    other,          \* the suspended second run (two-run specification only)
    call,           \* a direct call of a voting helper: [fn, arg]
    ret             \* what that call returned or raised

vars == <<params, stream, pos, pc, cell, match_id, P, R, players, round_id,
          base_ctx, players_alive, step_id, votes, game_results, other, call, ret>>

-----------------------------------------------------------------------------
(* Bounds *)

\* largest player count of the free-draw specification
MaxP == 4
\* largest round count of the free-draw specification
MaxR == 1
\* largest n_matches of the free-draw specification
MaxMatches == 1
\* free draws a run may take before the exploration is cut
MaxDraws == 10
\* length of the repeating pattern a seeded stream is built from
SeedLen == 2
\* raw values of a seeded stream are 0 .. SeedRaws-1
SeedRaws == 4
\* largest player count of the two-run specification
MaxP2 == 3
\* longest list a helper is called with directly; its players are 0 .. MaxCallLen-1
MaxCallLen == 3

-----------------------------------------------------------------------------
(* Generic helpers *)

SeqRange(s) == {s[i] : i \in 1..Len(s)}

\* list(range(n))
range(n) == [i \in 1..n |-> i - 1]

\* mutant: the last element is dropped, whatever x is
RemoveLast(list, x) == SubSeq(list, 1, Len(list) - 1)

\* list.remove(x): drops the first occurrence of x
Remove(list, x) ==
    LET first == CHOOSE i \in 1..Len(list) :
                     /\ list[i] = x
                     /\ \A j \in 1..(i - 1) : list[j] # x
    IN  [i \in 1..(Len(list) - 1) |-> IF i < first THEN list[i] ELSE list[i + 1]]

\* rng.choice(a) when the generator's raw result is raw
choice(a, raw) == a[(raw % Len(a)) + 1]

-----------------------------------------------------------------------------
(* The random generator *)

\* mutant: the generator is not seeded, a draw ignores the stream
AdmissibleUnseeded(k, L) == IF k <= MaxDraws THEN 0..(L - 1) ELSE {}

\* the raw results the k-th draw of a run can take over L candidates
Admissible(k, L) ==
    IF k <= Len(stream) THEN {stream[k]}
    ELSE IF k <= MaxDraws THEN 0..(L - 1)
    ELSE {}

\* the raw results of n consecutive draws after the k-th, each over L candidates
RECURSIVE RawSeqs(_, _, _)
RawSeqs(k, n, L) ==
    IF n <= 0 THEN {<<>>}
    ELSE {<<a>> \o s : a \in Admissible(k + 1, L), s \in RawSeqs(k + 1, n - 1, L)}

\* the stream after this run consumed raws
Consumed(raws) ==
    IF pos + Len(raws) > Len(stream)
    THEN SubSeq(stream, 1, pos) \o raws
    ELSE stream

-----------------------------------------------------------------------------
(* Pure helpers of simulation.py *)

\* mutant: the step id is not advanced
update_ctx_same_step(ctx, new_step_id) == ctx

\* mutant: the round id is overwritten together with the step id
update_ctx_and_round(ctx, new_step_id) ==
    [ctx EXCEPT !.step_id = new_step_id, !.round_id = new_step_id]

update_ctx(ctx, new_step_id) == [ctx EXCEPT !.step_id = new_step_id]

\* mutant: the voter is not excluded from its own candidates
possible_targets_with_self(alive, voter) == alive

possible_targets(alive, voter) == SelectSeq(alive, LAMBDA p : p # voter)

\* one target per voter, in the order of alive; raws[i] is voter i's draw
choose_targets(alive, raws) ==
    [i \in 1..Len(alive) |-> choice(possible_targets(alive, alive[i]), raws[i])]

\* keys of Counter(targets), in order of first appearance
RECURSIVE FirstSeen(_)
FirstSeen(s) ==
    IF s = <<>> THEN <<>>
    ELSE LET f == FirstSeen(SubSeq(s, 1, Len(s) - 1))
             x == s[Len(s)]
         IN  IF x \in SeqRange(f) THEN f ELSE Append(f, x)

count_votes(targets, player) == Cardinality({i \in 1..Len(targets) : targets[i] = player})

\* mutant: the count of the first target instead of the largest count
max_votes_first(targets) == count_votes(targets, targets[1])

max_votes_of(targets) ==
    CHOOSE m \in {count_votes(targets, p) : p \in SeqRange(targets)} :
        \A p \in SeqRange(targets) : count_votes(targets, p) <= m

most_voted_of(targets) ==
    SelectSeq(FirstSeen(targets), LAMBDA p : count_votes(targets, p) = max_votes_of(targets))

pick_eliminated_from_targets(targets, raw) ==
    [eliminated |-> choice(most_voted_of(targets), raw),
     max_votes  |-> max_votes_of(targets),
     most_voted |-> most_voted_of(targets)]

\* rng.choice raises on a voter's empty candidate list
choose_targets_raises(alive) ==
    \E i \in 1..Len(alive) : Len(possible_targets(alive, alive[i])) = 0

\* max() raises on the values of an empty Counter
pick_raises(targets) == Len(targets) = 0

\* mutant: strict majority instead of parity-or-advantage
impostors_win_strict(alive, impostors) ==
    Cardinality(SeqRange(alive) \cap impostors) > Cardinality(SeqRange(alive) \ impostors)

impostors_win(alive, impostors) ==
    LET alive_set == SeqRange(alive)
        n_imp == Cardinality(alive_set \cap impostors)
        n_civ == Cardinality(alive_set \ impostors)
    IN  n_imp >= n_civ

\* mutant: the two role names are swapped
role_swapped(player, impostors) == IF player \in impostors THEN "civil" ELSE "impostor"

role(player, impostors) == IF player \in impostors THEN "impostor" ELSE "civil"

\* mutant: the first voter's row is not appended
append_votes_rows_skip_first(sink, ctx, alive, targets) ==
    LET n == IF Len(alive) <= Len(targets) THEN Len(alive) ELSE Len(targets)
    IN  sink \o [i \in 1..(n - 1) |->
                    [P |-> ctx.P, R |-> ctx.R, match |-> ctx.match_id,
                     round |-> ctx.round_id, step |-> ctx.step_id,
                     voter |-> alive[i + 1], target |-> targets[i + 1],
                     voter_role |-> IF alive[i + 1] \in ctx.impostors THEN "impostor" ELSE "civil",
                     target_role |-> IF targets[i + 1] \in ctx.impostors THEN "impostor" ELSE "civil"]]

append_votes_rows(sink, ctx, alive, targets) ==
    LET n == IF Len(alive) <= Len(targets) THEN Len(alive) ELSE Len(targets)
    IN  sink \o [i \in 1..n |->
                    [P |-> ctx.P, R |-> ctx.R, match |-> ctx.match_id,
                     round |-> ctx.round_id, step |-> ctx.step_id,
                     voter |-> alive[i], target |-> targets[i],
                     voter_role |-> role(alive[i], ctx.impostors),
                     target_role |-> role(targets[i], ctx.impostors)]]

\* mutant: the sink is overwritten with the new row
append_game_result_row_overwrite(sink, ctx, eliminated, max_votes, tie_size, impostors_wins_flag) ==
    <<[P |-> ctx.P, R |-> ctx.R, match |-> ctx.match_id,
       round |-> ctx.round_id, step |-> ctx.step_id,
       eliminated |-> eliminated,
       eliminated_role |-> IF eliminated \in ctx.impostors THEN "impostor" ELSE "civil",
       max_votes |-> max_votes, tie_size |-> tie_size,
       impostors_wins |-> impostors_wins_flag]>>

append_game_result_row(sink, ctx, eliminated, max_votes, tie_size, impostors_wins_flag) ==
    Append(sink,
           [P |-> ctx.P, R |-> ctx.R, match |-> ctx.match_id,
            round |-> ctx.round_id, step |-> ctx.step_id,
            eliminated |-> eliminated,
            eliminated_role |-> role(eliminated, ctx.impostors),
            max_votes |-> max_votes, tie_size |-> tie_size,
            impostors_wins |-> impostors_wins_flag])

\* mutant: the loop runs while anybody is alive
RoundRunningWhileAnyAlive(alive, impostors) == Len(alive) > 0

\* mutant: the loop does not stop on parity
RoundRunningNoParity(alive, impostors) == Cardinality(SeqRange(alive) \cap impostors) > 0

\* mutant: the loop does not stop when the impostor is gone
RoundRunningOnlyParity(alive, impostors) == ~impostors_win(alive, impostors)

\* the while condition of simulate_round
RoundRunning(alive, impostors) ==
    /\ Cardinality(SeqRange(alive) \cap impostors) > 0
    /\ ~impostors_win(alive, impostors)

\* mutant: simulate_round works on the caller's list itself, not on a copy
players_after_step_aliased(caller_list, alive_after) == alive_after

\* the list simulate_match holds after a step of simulate_round changed
\* players_alive, which is a copy of it
players_after_step(caller_list, alive_after) == caller_list

\* choose_targets draws from an empty list (one player alive), or
\* pick_eliminated_from_targets takes max() of nothing (nobody alive)
VotingRaises(alive) == Len(alive) < 2

\* mutant: the replicate loop runs one time too few
SweepOrderOneShort(p) ==
    LET nr == Len(p.R_values)
        nm == IF p.n_matches > 1 THEN p.n_matches - 1 ELSE 0
    IN  [c \in 1..(Len(p.P_values) * nr * nm) |->
            [P |-> p.P_values[((c - 1) \div (nr * nm)) + 1],
             R |-> p.R_values[(((c - 1) \div nm) % nr) + 1]]]

\* the (P, R) cells in the order the three nested for loops visit them
SweepOrder(p) ==
    LET nr == Len(p.R_values)
        nm == IF p.n_matches > 0 THEN p.n_matches ELSE 0
    IN  [c \in 1..(Len(p.P_values) * nr * nm) |->
            [P |-> p.P_values[((c - 1) \div (nr * nm)) + 1],
             R |-> p.R_values[(((c - 1) \div nm) % nr) + 1]]]

-----------------------------------------------------------------------------
(* Initial states *)

NoCtx == [P |-> 0, R |-> 0, match_id |-> 0, round_id |-> 0, step_id |-> 0, impostors |-> {}]

\* no helper is called directly
NoCall == [fn |-> "none", arg |-> <<>>]
NoRet == [status |-> "none"]

\* the state of a run at the first line of run_complete_simulation
FreshRun ==
    [pos |-> 0, pc |-> "sweep", cell |-> 0, match_id |-> 0, P |-> 0, R |-> 0,
     players |-> <<>>, round_id |-> 0, base_ctx |-> NoCtx, players_alive |-> <<>>,
     step_id |-> 0, votes |-> <<>>, game_results |-> <<>>]

ThisRun ==
    [pos |-> pos, pc |-> pc, cell |-> cell, match_id |-> match_id, P |-> P, R |-> R,
     players |-> players, round_id |-> round_id, base_ctx |-> base_ctx,
     players_alive |-> players_alive, step_id |-> step_id, votes |-> votes,
     game_results |-> game_results]

InitRun ==
    /\ pos = 0 /\ pc = "sweep" /\ cell = 0 /\ match_id = 0 /\ P = 0 /\ R = 0
    /\ players = <<>> /\ round_id = 0 /\ base_ctx = NoCtx /\ players_alive = <<>>
    /\ step_id = 0 /\ votes = <<>> /\ game_results = <<>>
    /\ other = FreshRun

\* single-valued sweeps, valid and invalid
ParamSpace ==
    [P_values : {<<p>> : p \in 0..MaxP},
     R_values : {<<r>> : r \in 0..MaxR},
     n_matches : (-1)..MaxMatches]

Init ==
    /\ params \in ParamSpace
    /\ stream = <<>>
    /\ InitRun
    /\ call = NoCall
    /\ ret = NoRet

-----------------------------------------------------------------------------
(* Actions *)

\* run_complete_simulation: the next iteration of the innermost for loop,
\* up to the first line of simulate_match
StartMatch ==
    /\ pc = "sweep"
    /\ cell < Len(SweepOrder(params))
    /\ cell' = cell + 1
    /\ match_id' = match_id + 1
    /\ P' = SweepOrder(params)[cell + 1].P
    /\ R' = SweepOrder(params)[cell + 1].R
    /\ players' = range(SweepOrder(params)[cell + 1].P)
    /\ round_id' = 0
    /\ pc' = "match"
    /\ UNCHANGED <<params, stream, pos, base_ctx, players_alive, step_id,
                   votes, game_results, other, call, ret>>

\* simulate_match: one iteration of the round loop up to the while loop of
\* simulate_round; rng.choice raises on an empty player list
StartRound ==
    /\ pc = "match"
    /\ round_id < R
    /\ round_id' = round_id + 1
    /\ IF Len(players) = 0
       THEN /\ pc' = "raised"
            /\ UNCHANGED <<stream, pos, base_ctx, players_alive, step_id>>
       ELSE \E raw \in Admissible(pos + 1, Len(players)) :
              /\ stream' = Consumed(<<raw>>)
              /\ pos' = pos + 1
              /\ base_ctx' = [P |-> P, R |-> R, match_id |-> match_id,
                              round_id |-> round_id + 1, step_id |-> 0,
                              impostors |-> {choice(players, raw)}]
              /\ players_alive' = players
              /\ step_id' = 0
              /\ pc' = "round"
    /\ UNCHANGED <<params, cell, match_id, P, R, players, votes, game_results, other, call, ret>>

\* simulate_round: one iteration of the while loop
Step ==
    /\ pc = "round"
    /\ RoundRunning(players_alive, base_ctx.impostors)
    /\ step_id' = step_id + 1
    /\ IF VotingRaises(players_alive)
       THEN /\ pc' = "raised"
            /\ UNCHANGED <<stream, pos, players, players_alive, votes, game_results>>
       ELSE \E raws \in RawSeqs(pos, Len(players_alive), Len(players_alive) - 1) :
              LET ctx == update_ctx(base_ctx, step_id + 1)
                  targets == choose_targets(players_alive, raws)
                  n == Len(players_alive)
              IN  \E tie \in Admissible(pos + n + 1, Len(most_voted_of(targets))) :
                    LET picked == pick_eliminated_from_targets(targets, tie)
                        alive_after == Remove(players_alive, picked.eliminated)
                    IN  /\ stream' = Consumed(Append(raws, tie))
                        /\ pos' = pos + n + 1
                        /\ votes' = append_votes_rows(votes, ctx, players_alive, targets)
                        /\ players_alive' = alive_after
                        /\ players' = players_after_step(players, alive_after)
                        /\ game_results' = append_game_result_row(
                               game_results, ctx, picked.eliminated, picked.max_votes,
                               Len(picked.most_voted),
                               impostors_win(alive_after, ctx.impostors))
                        /\ pc' = "round"
    /\ UNCHANGED <<params, cell, match_id, P, R, round_id, base_ctx, other, call, ret>>

\* simulate_round: the while condition is false, the round returns
EndRound ==
    /\ pc = "round"
    /\ ~RoundRunning(players_alive, base_ctx.impostors)
    /\ pc' = "match"
    /\ UNCHANGED <<params, stream, pos, cell, match_id, P, R, players, round_id,
                   base_ctx, players_alive, step_id, votes, game_results, other, call, ret>>

\* simulate_match: the round loop is exhausted, the match returns
EndMatch ==
    /\ pc = "match"
    /\ round_id >= R
    /\ pc' = "sweep"
    /\ UNCHANGED <<params, stream, pos, cell, match_id, P, R, players, round_id,
                   base_ctx, players_alive, step_id, votes, game_results, other, call, ret>>

\* run_complete_simulation: the loops are exhausted, the frames are returned
Finish ==
    /\ pc = "sweep"
    /\ cell >= Len(SweepOrder(params))
    /\ pc' = "done"
    /\ UNCHANGED <<params, stream, pos, cell, match_id, P, R, players, round_id,
                   base_ctx, players_alive, step_id, votes, game_results, other, call, ret>>

Next ==
    \/ StartMatch
    \/ StartRound
    \/ Step
    \/ EndRound
    \/ EndMatch
    \/ Finish

Spec == Init /\ [][Next]_vars

-----------------------------------------------------------------------------
(* Seeded sweeps: the whole stream is fixed before the run starts *)

\* draws of one round of p players, at most: the impostor, then one draw per
\* voter and one tie-break for every step from p alive down to 3 alive
RoundDraws(p) == IF p > 2 THEN 1 + ((p - 2) * (p + 5)) \div 2 ELSE 1

RECURSIVE SweepDraws(_, _)
SweepDraws(cells, c) ==
    IF c > Len(cells) THEN 0
    ELSE cells[c].R * RoundDraws(cells[c].P) + SweepDraws(cells, c + 1)

\* the stream of a generator seeded with seed: the pattern seed, repeated
Prefill(seed, len) == [k \in 1..len |-> seed[((k - 1) % Len(seed)) + 1]]

Seeds == [1..SeedLen -> 0..(SeedRaws - 1)]

\* multi-valued valid sweeps
SweepParams ==
    { [P_values |-> <<4>>,    R_values |-> <<2>>,    n_matches |-> 5],
      [P_values |-> <<2, 3>>, R_values |-> <<1, 2>>, n_matches |-> 2],
      [P_values |-> <<3, 4>>, R_values |-> <<2>>,    n_matches |-> 1],
      [P_values |-> <<4, 2>>, R_values |-> <<2, 1>>, n_matches |-> 1],
      [P_values |-> <<3>>,    R_values |-> <<1>>,    n_matches |-> 3] }

InitSweep ==
    /\ params \in SweepParams
    /\ \E seed \in Seeds :
           stream = Prefill(seed, SweepDraws(SweepOrder(params), 1))
    /\ InitRun
    /\ call = NoCall
    /\ ret = NoRet

SpecSweep == InitSweep /\ [][Next]_vars

-----------------------------------------------------------------------------
(* Two runs of the same parameters on the same stream *)

ParamSpace2 ==
    [P_values : {<<p>> : p \in 0..MaxP2},
     R_values : {<<1>>, <<2>>},
     n_matches : {1}]

InitTwoRuns ==
    /\ params \in ParamSpace2
    /\ stream = <<>>
    /\ InitRun
    /\ call = NoCall
    /\ ret = NoRet

\* the scheduler suspends this run and resumes the other one
SwitchRun ==
    /\ other' = ThisRun
    /\ pos' = other.pos
    /\ pc' = other.pc
    /\ cell' = other.cell
    /\ match_id' = other.match_id
    /\ P' = other.P
    /\ R' = other.R
    /\ players' = other.players
    /\ round_id' = other.round_id
    /\ base_ctx' = other.base_ctx
    /\ players_alive' = other.players_alive
    /\ step_id' = other.step_id
    /\ votes' = other.votes
    /\ game_results' = other.game_results
    /\ UNCHANGED <<params, stream, call, ret>>

NextTwoRuns ==
    \/ Next
    \/ SwitchRun

SpecTwoRuns == InitTwoRuns /\ [][NextTwoRuns]_vars

-----------------------------------------------------------------------------
(* Reading the two sinks *)

ResultRows == SeqRange(game_results)
VoteRows == SeqRange(votes)

SameRound(x, y) == x.match = y.match /\ x.round = y.round

\* the players the records say are alive before / after step s of x's round
RecordedAlive(x, s) ==
    (0..(x.P - 1)) \ {h.eliminated : h \in {y \in ResultRows : SameRound(x, y) /\ y.step <= s}}

\* the players the vote rows of x's round mark as impostor
RecordedImpostors(x) ==
    {v.voter : v \in {y \in VoteRows : SameRound(x, y) /\ y.voter_role = "impostor"}}

\* the number of vote rows of sink that carry the ids of row x
RowsOfStep(sink, x) ==
    Cardinality({i \in 1..Len(sink) : SameRound(sink[i], x) /\ sink[i].step = x.step})

RowMatchIds == {g.match : g \in ResultRows} \cup {v.match : v \in VoteRows}
RowRoundIds(m) ==
    {g.round : g \in {y \in ResultRows : y.match = m}}
        \cup {v.round : v \in {y \in VoteRows : y.match = m}}
RowStepIds(m, r) ==
    {g.step : g \in {y \in ResultRows : y.match = m /\ y.round = r}}
        \cup {v.step : v \in {y \in VoteRows : y.match = m /\ y.round = r}}
Eliminations(m, r) == Cardinality({g \in ResultRows : g.match = m /\ g.round = r})

MatchIdsOrdered(sink) == \A i \in 1..(Len(sink) - 1) : sink[i].match <= sink[i + 1].match

-----------------------------------------------------------------------------
(* Claims *)

\* C1: for P >= 2 a round never raises, has taken at most P-1 steps at any
\* moment, and its alive pool never becomes empty.
C1_RoundBounded ==
    P >= 2 =>
        /\ pc # "raised"
        /\ pc = "round" => (step_id <= P - 1 /\ Len(players_alive) >= 1)

\* a round of 4 players that has ended after two eliminations
C1_Witness ==
    /\ pc = "round" /\ P = 4 /\ step_id = 2
    /\ ~RoundRunning(players_alive, base_ctx.impostors)

\* C2: the impostors_wins flag of every GameResultRecord equals (alive
\* impostors >= alive civilians) recomputed from the records on the pool left
\* after that record's elimination.
C2_WinFlag ==
    \A g \in ResultRows :
        LET alive == RecordedAlive(g, g.step)
            imps == RecordedImpostors(g)
        IN  g.impostors_wins =
                (Cardinality(alive \cap imps) >= Cardinality(alive \ imps))

\* a second step that ends a round by parity, after a first one that did not
C2_Witness == \E g \in ResultRows : g.step = 2 /\ g.impostors_wins

C3Case == params = [P_values |-> <<2>>, R_values |-> <<1>>, n_matches |-> 1]

\* C3 as stated: with P=2 and R=1 the finished run holds two vote rows, each
\* player voting for the other, and one GameResultRecord with max_votes 1 and
\* tie_size 2.
C3_Original ==
    (C3Case /\ pc = "done") =>
        /\ Len(votes) = 2
        /\ votes[1].target = votes[2].voter
        /\ votes[2].target = votes[1].voter
        /\ Len(game_results) = 1
        /\ game_results[1].max_votes = 1
        /\ game_results[1].tie_size = 2

\* C3 amended: with P=2 a round takes no step, the impostor has parity on the
\* full pool: no vote row and no GameResultRecord is ever emitted.
C3_NoStep ==
    params.P_values = <<2>> => (votes = <<>> /\ game_results = <<>> /\ step_id = 0)

\* the P=2, R=1 run has drawn its impostor, run its round and finished
C3_Witness == C3Case /\ pc = "done" /\ round_id = 1 /\ pos = 1

InvalidParams ==
    \/ \E i \in 1..Len(params.P_values) : params.P_values[i] < 2
    \/ \E i \in 1..Len(params.R_values) : params.R_values[i] < 1
    \/ params.n_matches <= 0

\* C4: with invalid parameters no match is ever started, nothing is appended
\* and the run does not return normally.
C4_FailFast ==
    InvalidParams =>
        /\ cell = 0
        /\ pc \in {"sweep", "raised"}
        /\ votes = <<>>
        /\ game_results = <<>>

\* C5 as stated: in the finished output the match ids are ordered and are
\* exactly 1..number of matches, the round ids of each match are exactly 1..R
\* and the step ids of each round are exactly 1..k.
C5_Original ==
    pc = "done" =>
        /\ MatchIdsOrdered(game_results) /\ MatchIdsOrdered(votes)
        /\ RowMatchIds = 1..Len(SweepOrder(params))
        /\ \A m \in RowMatchIds :
               /\ RowRoundIds(m) = 1..SweepOrder(params)[m].R
               /\ \A r \in RowRoundIds(m) : RowStepIds(m, r) = 1..Eliminations(m, r)

\* C5 amended: the match ids of the finished output are ordered and are
\* exactly the ids, counted 1, 2, ... in sweep order, of the matches with
\* P >= 3 (a match with P <= 2 emits nothing); the round ids of each match
\* that appears are exactly 1..R and the step ids of each round exactly 1..k.
C5_Ids ==
    pc = "done" =>
        /\ match_id = Len(SweepOrder(params))
        /\ MatchIdsOrdered(game_results) /\ MatchIdsOrdered(votes)
        /\ RowMatchIds = {m \in 1..Len(SweepOrder(params)) :
                              SweepOrder(params)[m].P >= 3 /\ SweepOrder(params)[m].R >= 1}
        /\ \A m \in RowMatchIds :
               /\ RowRoundIds(m) = 1..SweepOrder(params)[m].R
               /\ \A r \in RowRoundIds(m) : RowStepIds(m, r) = 1..Eliminations(m, r)

\* a finished sweep whose first four matches have two players
C5_Witness == pc = "done" /\ params.P_values = <<2, 3>> /\ RowMatchIds = 5..8

\* C6: a step appends exactly one vote row per player alive before it, in
\* the order of the alive pool, and these are all the rows with its step id.
C6_VoteRowsPerStep ==
    [][Len(game_results') > Len(game_results) =>
        LET g == game_results'[Len(game_results')]
        IN  /\ Len(votes') = Len(votes) + Len(players_alive)
            /\ SubSeq(votes', 1, Len(votes)) = votes
            /\ \A i \in 1..Len(players_alive) :
                   /\ votes'[Len(votes) + i].voter = players_alive[i]
                   /\ SameRound(votes'[Len(votes) + i], g)
                   /\ votes'[Len(votes) + i].step = g.step
            /\ RowsOfStep(votes', g) = Len(players_alive)
            /\ g.step = step_id'
    ]_vars

\* a second step, voted by the three players left of four
C6_Witness == \E g \in ResultRows : g.step = 2 /\ g.P = 4 /\ RowsOfStep(votes, g) = 3

\* C7: in every vote row the voter differs from the target, and the target
\* is alive at the start of the row's step.
C7_NoSelfVote ==
    \A v \in VoteRows :
        /\ v.voter # v.target
        /\ v.target \in RecordedAlive(v, v.step - 1)

\* a vote of a second step, cast after an elimination
C7_Witness == \E v \in VoteRows : v.step = 2 /\ v.target_role = "impostor"

Terminated(p) == p \in {"done", "raised"}

IsPrefix(a, b) == Len(a) <= Len(b) /\ SubSeq(b, 1, Len(a)) = a
Agree(a, b) == IsPrefix(a, b) \/ IsPrefix(b, a)

C9Case == params = [P_values |-> <<4>>, R_values |-> <<2>>, n_matches |-> 5]

\* C9: the finished sweep P_values=[4], R_values=[2], n_matches=5 holds
\* GameResultRecords for exactly the ten pairs (match 1..5, round 1..2).
C9_TenRounds ==
    (C9Case /\ pc = "done") =>
        {<<g.match, g.round>> : g \in ResultRows} = (1..5) \X (1..2)

\* that sweep has finished, some of its rounds with two eliminations
C9_Witness == C9Case /\ pc = "done" /\ Len(game_results) > 10

C10Case == params = [P_values |-> <<3>>, R_values |-> <<1>>, n_matches |-> 1]

\* C10: the finished run P=3, R=1, one match ran one round of one step: three
\* vote rows, one GameResultRecord, impostors_wins false when the impostor
\* was eliminated, and every role is "impostor" exactly for the one player
\* of the round's impostor set.
C10_ThreePlayers ==
    (C10Case /\ pc = "done") =>
        /\ match_id = 1 /\ round_id = 1 /\ step_id = 1
        /\ Len(votes) = 3
        /\ Len(game_results) = 1
        /\ game_results[1].step = 1
        /\ game_results[1].eliminated_role = "impostor" => ~game_results[1].impostors_wins
        /\ \E imp \in 0..2 :
               /\ base_ctx.impostors = {imp}
               /\ (game_results[1].eliminated_role = "impostor") = (game_results[1].eliminated = imp)
               /\ game_results[1].eliminated_role \in {"impostor", "civil"}
               /\ \A i \in 1..3 :
                      /\ votes[i].step = 1
                      /\ (votes[i].voter_role = "impostor") = (votes[i].voter = imp)
                      /\ (votes[i].target_role = "impostor") = (votes[i].target = imp)
                      /\ {votes[i].voter_role, votes[i].target_role} \subseteq {"impostor", "civil"}

\* the run has finished with the impostor eliminated
C10_Witness ==
    /\ C10Case /\ pc = "done" /\ Len(game_results) = 1
    /\ game_results[1].eliminated_role = "impostor"

\* the round of row x is over: it is not the round whose loop is still running
RoundOver(x) ==
    ~(/\ pc = "round"
      /\ x.match = match_id /\ x.round = round_id
      /\ RoundRunning(players_alive, base_ctx.impostors))

LastOfRound(g) == \A h \in ResultRows : SameRound(g, h) => h.step <= g.step

\* C11: whenever the loop of simulate_round is about to run a step, at
\* least two players are alive, and no step ever raised.
C11_NeverVotesAlone ==
    /\ pc # "raised" \/ Len(players) = 0
    /\ (pc = "round" /\ RoundRunning(players_alive, base_ctx.impostors)) =>
           Len(players_alive) >= 2

\* the loop is about to run a second step, on the three players left of four
C11_Witness ==
    /\ pc = "round" /\ RoundRunning(players_alive, base_ctx.impostors)
    /\ step_id = 1 /\ Len(players_alive) = 3

\* C12: the last GameResultRecord of a round that is over either eliminated
\* the impostor and has impostors_wins false, or eliminated a civilian, left
\* the impostor alive and has impostors_wins true.
C12_LastRecord ==
    \A g \in ResultRows :
        (LastOfRound(g) /\ RoundOver(g)) =>
            IF g.eliminated_role = "impostor"
            THEN /\ ~g.impostors_wins
                 /\ g.eliminated \in RecordedImpostors(g)
            ELSE /\ g.impostors_wins
                 /\ g.eliminated_role = "civil"
                 /\ RecordedImpostors(g) \cap RecordedAlive(g, g.step) # {}

\* a round is over whose second step eliminated the impostor
C12_Witness ==
    \E g \in ResultRows :
        /\ LastOfRound(g) /\ RoundOver(g)
        /\ g.step = 2 /\ g.eliminated_role = "impostor" /\ ~g.impostors_wins

\* C13: a step writes rows only from a state in which the impostor is alive
\* and alive impostors are fewer than alive civilians; so within a round no
\* row follows a GameResultRecord that eliminated the impostor or has
\* impostors_wins true.
C13_CheckBeforeVoting ==
    /\ [][(votes' # votes \/ game_results' # game_results) =>
            LET alive == SeqRange(players_alive)
                imps == base_ctx.impostors
            IN  /\ alive \cap imps # {}
                /\ Cardinality(alive \cap imps) < Cardinality(alive \ imps)
         ]_vars
    /\ [](\A g \in ResultRows :
            (g.eliminated_role = "impostor" \/ g.impostors_wins) =>
                /\ \A h \in ResultRows : SameRound(g, h) => h.step <= g.step
                /\ \A v \in VoteRows : SameRound(g, v) => v.step <= g.step)

\* a first step that did not end the round is followed by a second one
C13_Witness ==
    \E g \in ResultRows, h \in ResultRows :
        /\ SameRound(g, h) /\ g.step = 1 /\ h.step = 2
        /\ g.eliminated_role = "civil" /\ ~g.impostors_wins

\* C15: a step removes exactly the eliminated player from the alive pool,
\* was alive before, keeps the others in order, and the pool changes in no
\* other way during a round; no player is eliminated twice in a round.
C15_OneRemoval ==
    /\ [][/\ Len(game_results') > Len(game_results) =>
               LET e == game_results'[Len(game_results')].eliminated
               IN  /\ e \in SeqRange(players_alive)
                   /\ e \notin SeqRange(players_alive')
                   /\ Len(players_alive') = Len(players_alive) - 1
                   /\ \A i \in 1..Len(players_alive') :
                          players_alive'[i] =
                              IF \E j \in 1..i : players_alive[j] = e
                              THEN players_alive[i + 1] ELSE players_alive[i]
          /\ (pc = "round" /\ players_alive' # players_alive) =>
               Len(game_results') = Len(game_results) + 1
         ]_vars
    /\ [](\A g \in ResultRows, h \in ResultRows :
            (SameRound(g, h) /\ g.eliminated = h.eliminated) => g.step = h.step)

\* two players of four are left after two different eliminations
C15_Witness ==
    /\ pc = "round" /\ step_id = 2 /\ Len(players_alive) = 2
    /\ \E g \in ResultRows, h \in ResultRows :
           SameRound(g, h) /\ g.step = 1 /\ h.step = 2 /\ g.eliminated # h.eliminated

RolesFromVote(v, imp) ==
    /\ (v.voter_role = "impostor") = (v.voter = imp)
    /\ (v.target_role = "impostor") = (v.target = imp)
    /\ {v.voter_role, v.target_role} \subseteq {"impostor", "civil"}

RolesFromResult(g, imp) ==
    /\ (g.eliminated_role = "impostor") = (g.eliminated = imp)
    /\ g.eliminated_role \in {"impostor", "civil"}

\* C17: every row a step appends carries the P, R, match id and round id of
\* the running round and roles taken from the round's impostor set; that set
\* is one player of 0..P-1 and the round's context never changes while the
\* round runs; so all rows of a round agree on P and R and on the impostor.
C17_ContextFixed ==
    /\ [][/\ \A i \in (Len(votes) + 1)..Len(votes') :
                /\ votes'[i].P = P /\ votes'[i].R = R
                /\ votes'[i].match = match_id /\ votes'[i].round = round_id
                /\ votes'[i].step = step_id'
                /\ \A imp \in base_ctx.impostors : RolesFromVote(votes'[i], imp)
          /\ \A i \in (Len(game_results) + 1)..Len(game_results') :
                /\ game_results'[i].P = P /\ game_results'[i].R = R
                /\ game_results'[i].match = match_id
                /\ game_results'[i].round = round_id
                /\ game_results'[i].step = step_id'
                /\ \A imp \in base_ctx.impostors : RolesFromResult(game_results'[i], imp)
          /\ (pc = "round" /\ pc' = "round") => base_ctx' = base_ctx
         ]_vars
    /\ [](pc = "round" =>
            /\ \E imp \in 0..(P - 1) : base_ctx.impostors = {imp}
            /\ base_ctx.P = P /\ base_ctx.R = R /\ base_ctx.match_id = match_id
            /\ base_ctx.round_id = round_id /\ base_ctx.step_id = 0)
    /\ [](\A x \in VoteRows :
            \E imp \in 0..(x.P - 1) :
                /\ \A v \in VoteRows :
                       SameRound(x, v) => (v.P = x.P /\ v.R = x.R /\ RolesFromVote(v, imp))
                /\ \A g \in ResultRows :
                       SameRound(x, g) => (g.P = x.P /\ g.R = x.R /\ RolesFromResult(g, imp)))

\* a round has written the rows of two steps, the impostor voting in both
C17_Witness ==
    \E v \in VoteRows, w \in VoteRows :
        /\ SameRound(v, w) /\ v.step = 1 /\ w.step = 2
        /\ v.voter_role = "impostor" /\ w.voter_role = "impostor"

\* C19: with P >= 3 a round that is over has run between 1 and P-2 steps;
\* a record with impostors_wins true is the (P-2)th of its round, all
\* eliminations of that round are civilians and two players are left, the
\* impostor and one civilian; every record that is not the last of its
\* round has impostors_wins false and eliminated a civilian.
C19_StepCount ==
    /\ (P >= 3 /\ pc = "round") =>
           /\ step_id <= P - 2
           /\ ~RoundRunning(players_alive, base_ctx.impostors) => step_id >= 1
    /\ \A g \in ResultRows :
           g.P >= 3 =>
               /\ g.step >= 1 /\ g.step <= g.P - 2
               /\ ~LastOfRound(g) => (~g.impostors_wins /\ g.eliminated_role = "civil")
               /\ g.impostors_wins =>
                      /\ g.step = g.P - 2
                      /\ \A h \in ResultRows : SameRound(g, h) => h.eliminated_role = "civil"
                      /\ Cardinality(RecordedAlive(g, g.step)) = 2
                      /\ Cardinality(RecordedAlive(g, g.step) \cap RecordedImpostors(g)) = 1

\* a finished run whose round of four players ended by parity
C19_Witness ==
    /\ pc = "done"
    /\ \E g \in ResultRows : g.P = 4 /\ g.impostors_wins /\ g.step = 2

C16_FullPoolEachRound ==
    /\ pc \in {"match", "round"} => players = range(P)
    /\ (pc = "round" /\ step_id = 0) => players_alive = range(P)
    /\ \A v \in VoteRows :
           v.step = 1 =>
               {w.voter : w \in {y \in VoteRows : SameRound(v, y) /\ y.step = 1}}
                   = 0..(v.P - 1)

\* a player eliminated in round 1 of a match votes in its round 2
C16_Witness ==
    \E g \in ResultRows, v \in VoteRows :
        /\ g.match = v.match /\ g.round = 1 /\ v.round = 2
        /\ v.voter = g.eliminated

-----------------------------------------------------------------------------
(* Direct calls of the voting helpers *)

RECURSIVE ListsUpTo(_, _)
ListsUpTo(S, n) ==
    IF n = 0 THEN {<<>>}
    ELSE ListsUpTo(S, n - 1)
             \cup {Append(l, x) : l \in {m \in ListsUpTo(S, n - 1) : Len(m) = n - 1}, x \in S}

\* every list of targets, and every list of distinct alive players
TargetLists == ListsUpTo(0..(MaxCallLen - 1), MaxCallLen)
AliveLists == {l \in TargetLists : Cardinality(SeqRange(l)) = Len(l)}

InitVoting ==
    /\ params = [P_values |-> <<>>, R_values |-> <<>>, n_matches |-> 0]
    /\ stream \in {<<>>} \cup {<<r>> : r \in 0..(SeedRaws - 1)}
    /\ InitRun
    /\ call \in {[fn |-> "pick", arg |-> t] : t \in TargetLists}
                \cup {[fn |-> "vote", arg |-> a] : a \in AliveLists}
    /\ ret = NoRet

\* pick_eliminated_from_targets(call.arg, rng)
CallPick ==
    /\ call.fn = "pick"
    /\ ret.status = "none"
    /\ IF pick_raises(call.arg)
       THEN /\ ret' = [status |-> "raised"]
            /\ UNCHANGED <<stream, pos>>
       ELSE \E raw \in Admissible(pos + 1, Len(most_voted_of(call.arg))) :
              /\ ret' = [status |-> "returned",
                         value |-> pick_eliminated_from_targets(call.arg, raw)]
              /\ stream' = Consumed(<<raw>>)
              /\ pos' = pos + 1
    /\ UNCHANGED <<params, pc, cell, match_id, P, R, players, round_id, base_ctx,
                   players_alive, step_id, votes, game_results, other, call>>

\* choose_targets(call.arg, rng) followed by pick_eliminated_from_targets
CallVotingStep ==
    /\ call.fn = "vote"
    /\ ret.status = "none"
    /\ LET alive == call.arg
           n == Len(alive)
           L == IF n = 0 THEN 0 ELSE Len(possible_targets(alive, alive[1]))
       IN  IF choose_targets_raises(alive)
           THEN /\ ret' = [status |-> "raised"]
                /\ UNCHANGED <<stream, pos>>
           ELSE \E raws \in RawSeqs(pos, n, L) :
                  LET targets == choose_targets(alive, raws)
                  IN  IF pick_raises(targets)
                      THEN /\ ret' = [status |-> "raised"]
                           /\ UNCHANGED <<stream, pos>>
                      ELSE \E tie \in Admissible(pos + n + 1, Len(most_voted_of(targets))) :
                             /\ ret' = [status |-> "returned", targets |-> targets,
                                        value |-> pick_eliminated_from_targets(targets, tie)]
                             /\ stream' = Consumed(Append(raws, tie))
                             /\ pos' = pos + n + 1
    /\ UNCHANGED <<params, pc, cell, match_id, P, R, players, round_id, base_ctx,
                   players_alive, step_id, votes, game_results, other, call>>

NextVoting ==
    \/ CallPick
    \/ CallVotingStep

SpecVoting == InitVoting /\ [][NextVoting]_vars

\* C14: for a non-empty list of targets pick_eliminated_from_targets returns;
\* max_votes is the largest number of votes a target received, most_voted
\* holds each target with that many votes exactly once, eliminated is one of
\* them, and is the only one when there is only one, whatever the draw.
C14_PickEliminated ==
    (call.fn = "pick" /\ Len(call.arg) > 0 /\ ret.status # "none") =>
        /\ ret.status = "returned"
        /\ LET t == call.arg
               received(p) == Cardinality({i \in 1..Len(t) : t[i] = p})
               r == ret.value
           IN  /\ \E p \in SeqRange(t) : received(p) = r.max_votes
               /\ \A p \in SeqRange(t) : received(p) <= r.max_votes
               /\ SeqRange(r.most_voted) = {p \in SeqRange(t) : received(p) = r.max_votes}
               /\ Len(r.most_voted) = Cardinality(SeqRange(r.most_voted))
               /\ r.eliminated \in SeqRange(r.most_voted)
               /\ Len(r.most_voted) = 1 => r.eliminated = r.most_voted[1]

\* a single most-voted target was returned on a draw that is not 0
C14_Witness ==
    /\ call.fn = "pick" /\ ret.status = "returned"
    /\ Len(call.arg) = 3 /\ ret.value.max_votes = 2 /\ Len(ret.value.most_voted) = 1
    /\ Len(stream) >= 1 /\ stream[1] > 0

\* C18: the voting step called with no or one alive player raises, returns
\* nothing and leaves both sinks empty.
C18_RaisesBelowTwo ==
    (call.fn = "vote" /\ Len(call.arg) < 2 /\ ret.status # "none") =>
        /\ ret.status = "raised"
        /\ votes = <<>>
        /\ game_results = <<>>

\* the call with one alive player has raised
C18_Witness == call.fn = "vote" /\ Len(call.arg) = 1 /\ ret.status = "raised"

====
